---- MODULE Spec2Model ----
(***************************************************************************)
(* rusttygif: replay of a terminal typescript against its timing file,     *)
(* with one screen capture per replayed chunk and a final call of the      *)
(* encoder (src/main.rs).  The model starts after the start-up code        *)
(* (dependency checks, argument check, mkdir, opening both files and       *)
(* reading the typescript's first line, main.rs lines 59-80) has           *)
(* succeeded, and follows main() from line 84 to the end.                  *)
(*                                                                         *)
(* Text is modelled as sequences of one-character strings, bytes as        *)
(* integers in 0..255, a command token as a sequence of strings.           *)
(***************************************************************************)
EXTENDS Integers, Sequences, FiniteSets, TLC

VARIABLES
    timing,     \* the lines of the timing file (input)
    script,     \* the bytes of the typescript file, header line included (input)
    windowid,   \* WINDOWID in the environment: whether it is set, and its value (input)
    pc,         \* position in main()
    lineNo,     \* number of timing lines taken from timing.lines() so far
    parts,      \* l.split(" ") of the current line
    delay,      \* f64 value of parts[0]
    size,       \* usize value of parts[1]
    frame,      \* main.rs `frame`
    buffer,     \* main.rs `buffer`
    cursor,     \* number of bytes of `script` consumed so far
    convert,    \* main.rs `convert`, the encoder's argument vector
    terminal,   \* the typescript bytes printed to stdout so far (main.rs line 112)
    sleeps,     \* the durations passed to sleep(), in order
    procs,      \* the external processes started so far, with their outcome
    log,        \* the observable steps taken so far, in order
    err,        \* message of the error the process exited with, "" when none
    exitCode    \* exit status of the process, -1 while it runs

vars == <<timing, script, windowid, pc, lineNo, parts, delay, size, frame, buffer,
          cursor, convert, terminal, sleeps, procs, log, err, exitCode>>

----------------------------------------------------------------------------
(* Bounds of the model *)

MaxRecords == 3

----------------------------------------------------------------------------
(* Text helpers *)

Digit == {"0", "1", "2", "3", "4", "5", "6", "7", "8", "9"}

DigitVal(c) ==
    CASE c = "0" -> 0 [] c = "1" -> 1 [] c = "2" -> 2 [] c = "3" -> 3 [] c = "4" -> 4
      [] c = "5" -> 5 [] c = "6" -> 6 [] c = "7" -> 7 [] c = "8" -> 8 [] c = "9" -> 9

DigitChar(n) ==
    CASE n = 0 -> "0" [] n = 1 -> "1" [] n = 2 -> "2" [] n = 3 -> "3" [] n = 4 -> "4"
      [] n = 5 -> "5" [] n = 6 -> "6" [] n = 7 -> "7" [] n = 8 -> "8" [] n = 9 -> "9"

AllDigits(s) == \A i \in 1..Len(s) : s[i] \in Digit

\* Value of a string of decimal digits (0 for the empty string).
RECURSIVE DigitsValue(_)
DigitsValue(s) ==
    IF s = <<>> THEN 0
    ELSE 10 * DigitsValue(SubSeq(s, 1, Len(s) - 1)) + DigitVal(s[Len(s)])

\* str::split(sep): the pieces between the separators; n separators give n+1
\* pieces, empty pieces included.
RECURSIVE Split(_, _)
Split(s, sep) ==
    IF s = <<>> THEN << <<>> >>
    ELSE LET rest == Split(Tail(s), sep)
         IN  IF Head(s) = sep
             THEN << <<>> >> \o rest
             ELSE << <<Head(s)>> \o Head(rest) >> \o Tail(rest)

\* format!("{}", n) of an unsigned integer.
RECURSIVE ToDecimal(_)
ToDecimal(n) ==
    IF n < 10 THEN <<DigitChar(n)>>
    ELSE ToDecimal(n \div 10) \o <<DigitChar(n % 10)>>

\* A command token holding a literal of the source.
Lit(s) == <<s>>

----------------------------------------------------------------------------
(* Library functions the program calls, modelled by what they do *)

NanosPerSec == 1000000000

\* usize::from_str and u64::from_str: an optional "+", then at least one
\* digit and nothing else.  (Values stay far below the integer width.)
UnsignedDigits(s) == IF s # <<>> /\ s[1] = "+" THEN Tail(s) ELSE s

ParseUnsigned(s) ==
    LET d == UnsignedDigits(s)
    IN  IF d # <<>> /\ AllDigits(d)
        THEN [ok |-> TRUE, val |-> DigitsValue(d)]
        ELSE [ok |-> FALSE, val |-> 0]

\* The first nine fractional digits as a count of nanoseconds.
FracNanos(f) ==
    DigitsValue([i \in 1..9 |-> IF i <= Len(f) THEN f[i] ELSE "0"])

\* f64::from_str for plain decimal notation: an optional sign, digits with
\* at most one ".", and at least one digit.  The value is kept exactly, as
\* sign, whole seconds and nanoseconds; the inputs of the model are decimals
\* that an f64 represents exactly.  Exponents, "inf" and "nan" need
\* characters the modelled timing lines do not contain.
ParseF64(s) ==
    LET signed == s # <<>> /\ s[1] \in {"+", "-"}
        body   == IF signed THEN Tail(s) ELSE s
        pieces == Split(body, ".")
        whole  == pieces[1]
        fract  == IF Len(pieces) > 1 THEN pieces[2] ELSE <<>>
    IN  IF /\ Len(pieces) <= 2
           /\ AllDigits(whole) /\ AllDigits(fract)
           /\ Len(whole) + Len(fract) >= 1
        THEN [ok |-> TRUE, neg |-> (signed /\ s[1] = "-"),
              int |-> DigitsValue(whole), nanos |-> FracNanos(fract)]
        ELSE [ok |-> FALSE, neg |-> FALSE, int |-> 0, nanos |-> 0]

NoDelay == [ok |-> FALSE, neg |-> FALSE, int |-> 0, nanos |-> 0]

DurationNew_WholeSeconds(secs, nanos) == <<secs, 0>>

\* Duration::new(secs, nanos): nanoseconds beyond one second carry over.
DurationNew(secs, nanos) ==
    <<secs + (nanos \div NanosPerSec), nanos % NanosPerSec>>

\* str::from_utf8: whether the bytes are well-formed UTF-8.
Cont(b) == b >= 128 /\ b <= 191

RECURSIVE ValidUtf8(_)
ValidUtf8(b) ==
    IF b = <<>> THEN TRUE
    ELSE LET c == b[1]
             n == Len(b)
         IN  IF c < 128 THEN ValidUtf8(Tail(b))
             ELSE IF c >= 194 /\ c <= 223
                  THEN n >= 2 /\ Cont(b[2]) /\ ValidUtf8(SubSeq(b, 3, n))
             ELSE IF c >= 224 /\ c <= 239
                  THEN /\ n >= 3 /\ Cont(b[2]) /\ Cont(b[3])
                       /\ (c = 224 => b[2] >= 160)
                       /\ (c = 237 => b[2] <= 159)
                       /\ ValidUtf8(SubSeq(b, 4, n))
             ELSE IF c >= 240 /\ c <= 244
                  THEN /\ n >= 4 /\ Cont(b[2]) /\ Cont(b[3]) /\ Cont(b[4])
                       /\ (c = 240 => b[2] >= 144)
                       /\ (c = 244 => b[2] <= 143)
                       /\ ValidUtf8(SubSeq(b, 5, n))
             ELSE FALSE

ReadLine_Nothing(b) == 0

\* BufRead::read_line: the number of bytes up to and including the first
\* newline, or all of them when there is none.
RECURSIVE ReadLine(_)
ReadLine(b) ==
    IF b = <<>> THEN 0
    ELSE IF Head(b) = 10 THEN 1
    ELSE 1 + ReadLine(Tail(b))

\* Vec::resize(n, 0): truncated, or extended with zero bytes.
Resize(b, n) == [i \in 1..n |-> IF i <= Len(b) THEN b[i] ELSE 0]

----------------------------------------------------------------------------
(* Inputs *)

Line_05_3   == <<"0", ".", "5", " ", "3">>
Line_10_4   == <<"1", ".", "0", " ", "4">>
Line_10_0   == <<"1", ".", "0", " ", "0">>
Line_25_1   == <<"2", ".", "5", " ", "1">>
Line_three  == <<"0", ".", "5", " ", "3", " ", "7">>
Line_single == <<"7">>
Line_baddel == <<"x", " ", "3">>
Line_badsz  == <<"0", ".", "5", " ", "y">>
Line_negdel == <<"-", "0", ".", "5", " ", "3">>

Lines == {Line_05_3, Line_10_4, Line_10_0, Line_25_1, Line_three, Line_single,
          Line_baddel, Line_badsz, Line_negdel}

RECURSIVE SeqsUpTo(_, _)
SeqsUpTo(S, n) ==
    IF n = 0 THEN {<<>>}
    ELSE LET shorter == SeqsUpTo(S, n - 1)
         IN  shorter \cup {Append(s, x) : s \in {t \in shorter : Len(t) = n - 1}, x \in S}

TimingFiles == SeqsUpTo(Lines, MaxRecords)

\* The typescript's first line, "#" and a newline.
Header == <<35, 10>>

\* Payloads: "abcwxyz"; the same with one byte to spare; "abcw"; "abcwx"
\* followed by the two bytes of U+00E9, which a chunk boundary can split; a
\* payload starting with a byte that no UTF-8 text contains; the empty
\* payload.
Payloads == { <<97, 98, 99, 119, 120, 121, 122>>,
              <<97, 98, 99, 119, 120, 121, 122, 81>>,
              <<97, 98, 99, 119>>,
              <<97, 98, 99, 119, 120, 195, 169>>,
              <<255, 98, 99, 119, 120, 121, 122>>,
              <<>> }

Scripts == {Header \o p : p \in Payloads}

\* WINDOWID is unset, or names a window.
WindowIds == {[set |-> FALSE, value |-> ""], [set |-> TRUE, value |-> "0x3a00007"]}

\* What starting an external process can come to: it cannot be started, it
\* runs and exits with status 0, it runs and exits with another status.
Outcomes == {"spawn_failed", "status_zero", "status_nonzero"}

Payload == SubSeq(script, ReadLine(script) + 1, Len(script))

----------------------------------------------------------------------------
(* The pieces of main() *)

OutputPath == "output"

ShouldEmit_EveryIteration(buf) == TRUE

ShouldEmit_Inverted(buf) == Len(buf) = 0

\* if buffer.len() > 0
ShouldEmit(buf) == Len(buf) > 0

PushDelay_SizeToken(cv, p) == cv \o <<Lit("-delay"), p[2]>>

\* convert.push("-delay"); convert.push(parts[0].to_string())
PushDelay(cv, p) == cv \o <<Lit("-delay"), p[1]>>

ImgPath_NoIndex(dir, f) == <<dir, "/img-", ".xwd">>

\* format!("{}/img-{}.xwd", output_path, frame)
ImgPath(dir, f) == <<dir, "/img-">> \o ToDecimal(f) \o <<".xwd">>

NextFrame_Stuck(f) == f

\* frame += 1
NextFrame(f) == f + 1

\* (delay - delay_secs as f64) * 1.0e9, in nanoseconds
DelayNsecs(d, secs) ==
    (IF d.neg THEN 0 - 1 ELSE 1) * ((d.int - secs) * NanosPerSec + d.nanos)

\* `as u32` saturates: a negative value becomes 0.  (The values of the model
\* stay below the upper end of u32.)
AsU32(x) == IF x < 0 THEN 0 ELSE x

Shorter(a, b) == IF a < b THEN a ELSE b

ReadExact_Short(scr, cur, n) ==
    [ok |-> TRUE, bytes |-> SubSeq(scr, cur + 1, Shorter(cur + n, Len(scr)))]

\* script.read_exact(buffer_slice): the next n bytes, or an error when fewer
\* than n bytes are left.
ReadExact(scr, cur, n) ==
    IF cur + n <= Len(scr)
    THEN [ok |-> TRUE, bytes |-> SubSeq(scr, cur + 1, cur + n)]
    ELSE [ok |-> FALSE, bytes |-> <<>>]

EncoderArgs_OutputFirst(cv, dir) ==
    <<Head(cv), <<dir, "/output.gif">> >> \o Tail(cv) \o <<Lit("-layers"), Lit("Optimize")>>

\* The three pushes that end the encoder's argument vector.
EncoderArgs(cv, dir) ==
    cv \o <<Lit("-layers"), Lit("Optimize"), <<dir, "/output.gif">> >>

ExecuteFails_Never(outcome) == FALSE

\* execute(): Command::status() is an error only when the process could not
\* be started; the exit status of a process that ran is not looked at.
ExecuteFails(outcome) == outcome = "spawn_failed"

Exit_Returns(message) ==
    /\ pc' = pc
    /\ err' = message
    /\ exitCode' = 1

\* exit(): print the message, process::exit(1).
Exit(message) ==
    /\ pc' = "failed"
    /\ err' = message
    /\ exitCode' = 1

\* An index out of bounds: the thread panics, the process exits with 101.
Panic(message) ==
    /\ pc' = "failed"
    /\ err' = message
    /\ exitCode' = 101

Proc(tool, args, outcome) ==
    [tool |-> tool, args |-> args, outcome |-> outcome,
     rec |-> lineNo, shown |-> Len(terminal)]

Event(op) == [op |-> op, rec |-> lineNo]

Init ==
    /\ timing \in TimingFiles
    /\ script \in Scripts
    /\ windowid \in WindowIds
    /\ pc = "line"
    /\ lineNo = 0
    /\ parts = <<>>
    /\ delay = NoDelay
    /\ size = 0
    /\ frame = 1
    /\ buffer = <<>>
    /\ cursor = ReadLine(script)
    /\ convert = <<Lit("convert")>>
    /\ terminal = <<>>
    /\ sleeps = <<>>
    /\ procs = <<>>
    /\ log = <<>>
    /\ err = ""
    /\ exitCode = 0 - 1

\* Lines 89-98: take the next timing line, split it, parse the delay and the
\* size, push the delay onto the encoder's arguments.
ParseLine ==
    /\ pc = "line"
    /\ lineNo < Len(timing)
    /\ LET p  == Split(timing[lineNo + 1], " ")
           d  == ParseF64(p[1])
           sz == ParseUnsigned(p[2])
       IN  /\ lineNo' = lineNo + 1
           /\ parts' = p
           /\ IF ~d.ok
              THEN /\ Exit("Error reading delay in timing file")
                   /\ UNCHANGED <<delay, size, convert>>
              ELSE IF Len(p) < 2
              THEN /\ Panic("index out of bounds")
                   /\ delay' = d
                   /\ UNCHANGED <<size, convert>>
              ELSE IF ~sz.ok
              THEN /\ Exit("Error reading size in timing file")
                   /\ delay' = d
                   /\ UNCHANGED <<size, convert>>
              ELSE /\ delay' = d
                   /\ size' = sz.val
                   /\ convert' = PushDelay(convert, p)
                   /\ pc' = "pace"
                   /\ UNCHANGED <<err, exitCode>>
    /\ UNCHANGED <<timing, script, windowid, frame, buffer, cursor, terminal,
                   sleeps, procs, log>>

Pace_NoSleep ==
    /\ pc = "pace"
    /\ pc' = IF ShouldEmit(buffer) THEN "emit" ELSE "read"
    /\ UNCHANGED <<timing, script, windowid, lineNo, parts, delay, size, frame,
                   buffer, cursor, convert, terminal, sleeps, procs, log, err,
                   exitCode>>

\* Lines 100-105: the delay as whole seconds and nanoseconds, and the sleep.
Pace ==
    /\ pc = "pace"
    /\ LET delay_parts == Split(parts[1], ".")
           delay_secs  == ParseUnsigned(delay_parts[1])
           delay_nsecs == DelayNsecs(delay, delay_secs.val)
       IN  IF ~delay_secs.ok
           THEN /\ Exit("Error parsing delay in timing file")
                /\ UNCHANGED <<sleeps, log>>
           ELSE /\ sleeps' = Append(sleeps, DurationNew(delay_secs.val, AsU32(delay_nsecs)))
                /\ log' = Append(log, Event("sleep"))
                /\ pc' = IF ShouldEmit(buffer) THEN "emit" ELSE "read"
                /\ UNCHANGED <<err, exitCode>>
    /\ UNCHANGED <<timing, script, windowid, lineNo, parts, delay, size, frame,
                   buffer, cursor, convert, terminal, procs>>

Emit_Lossy ==
    /\ pc = "emit"
    /\ terminal' = terminal \o buffer
    /\ log' = Append(log, Event("emit"))
    /\ pc' = "capture"
    /\ UNCHANGED <<timing, script, windowid, lineNo, parts, delay, size, frame,
                   buffer, cursor, convert, sleeps, procs, err, exitCode>>

\* Lines 110-113: decode the buffered chunk, print it, flush stdout.
Emit ==
    /\ pc = "emit"
    /\ IF ~ValidUtf8(buffer)
       THEN /\ Exit("Error converting script output to a string")
            /\ UNCHANGED <<terminal, log>>
       ELSE /\ terminal' = terminal \o buffer
            /\ log' = Append(log, Event("emit"))
            /\ pc' = "capture"
            /\ UNCHANGED <<err, exitCode>>
    /\ UNCHANGED <<timing, script, windowid, lineNo, parts, delay, size, frame,
                   buffer, cursor, convert, sleeps, procs>>

CaptureUnresolved_Default ==
    /\ pc = "capture"
    /\ ~windowid.set
    /\ LET img_path == ImgPath(OutputPath, frame)
           args == <<Lit("xwd"), Lit("-id"), Lit("root"), Lit("-out"), img_path>>
       IN  /\ procs' = Append(procs, Proc("xwd", args, "status_zero"))
           /\ convert' = Append(convert, img_path)
    /\ log' = Append(log, Event("capture"))
    /\ pc' = "read"
    /\ UNCHANGED <<timing, script, windowid, lineNo, parts, delay, size, frame,
                   buffer, cursor, terminal, sleeps, err, exitCode>>

\* Line 116 when WINDOWID is not set.
CaptureUnresolved ==
    /\ pc = "capture"
    /\ ~windowid.set
    /\ Exit("Could not determine window ID")
    /\ UNCHANGED <<timing, script, windowid, lineNo, parts, delay, size, frame,
                   buffer, cursor, convert, terminal, sleeps, procs, log>>

\* Lines 115-118: run xwd on the window, push the image path.
Capture ==
    /\ pc = "capture"
    /\ windowid.set
    /\ \E outcome \in Outcomes :
         LET img_path == ImgPath(OutputPath, frame)
             args == <<Lit("xwd"), Lit("-id"), Lit(windowid.value), Lit("-out"), img_path>>
         IN  /\ procs' = Append(procs, Proc("xwd", args, outcome))
             /\ IF ExecuteFails(outcome)
                THEN /\ Exit("Failed to execute process")
                     /\ UNCHANGED <<convert, log>>
                ELSE /\ convert' = Append(convert, img_path)
                     /\ log' = Append(log, Event("capture"))
                     /\ pc' = "read"
                     /\ UNCHANGED <<err, exitCode>>
    /\ UNCHANGED <<timing, script, windowid, lineNo, parts, delay, size, frame,
                   buffer, cursor, terminal, sleeps>>

ReadChunk_Echo ==
    /\ pc = "read"
    /\ LET r == ReadExact(script, cursor, size)
       IN  IF ~r.ok
           THEN /\ Exit("Could not read from script file")
                /\ buffer' = Resize(buffer, size)
                /\ UNCHANGED <<cursor, frame, log, terminal>>
           ELSE /\ buffer' = r.bytes
                /\ terminal' = terminal \o r.bytes
                /\ cursor' = cursor + size
                /\ frame' = NextFrame(frame)
                /\ log' = Append(log, Event("read"))
                /\ pc' = "line"
                /\ UNCHANGED <<err, exitCode>>
    /\ UNCHANGED <<timing, script, windowid, lineNo, parts, delay, size, convert,
                   sleeps, procs>>

\* Lines 123-127: resize the buffer to the declared size, fill it from the
\* typescript, count the iteration.
ReadChunk ==
    /\ pc = "read"
    /\ LET r == ReadExact(script, cursor, size)
       IN  IF ~r.ok
           THEN /\ Exit("Could not read from script file")
                /\ buffer' = Resize(buffer, size)
                /\ UNCHANGED <<cursor, frame, log>>
           ELSE /\ buffer' = r.bytes
                /\ cursor' = cursor + size
                /\ frame' = NextFrame(frame)
                /\ log' = Append(log, Event("read"))
                /\ pc' = "line"
                /\ UNCHANGED <<err, exitCode>>
    /\ UNCHANGED <<timing, script, windowid, lineNo, parts, delay, size, convert,
                   terminal, sleeps, procs>>

\* Lines 130-135, once timing.lines() is exhausted: complete the encoder's
\* arguments and run the encoder.
Assemble ==
    /\ pc = "line"
    /\ lineNo = Len(timing)
    /\ convert' = EncoderArgs(convert, OutputPath)
    /\ \E outcome \in Outcomes :
         /\ procs' = Append(procs, Proc("convert", convert', outcome))
         /\ IF ExecuteFails(outcome)
            THEN /\ Exit("Failed to execute process")
                 /\ UNCHANGED log
            ELSE /\ log' = Append(log, Event("encode"))
                 /\ pc' = "view"
                 /\ UNCHANGED <<err, exitCode>>
    /\ UNCHANGED <<timing, script, windowid, lineNo, parts, delay, size, frame,
                   buffer, cursor, terminal, sleeps>>

\* Lines 138-141: open the animation in the browser, return from main.
View ==
    /\ pc = "view"
    /\ \E outcome \in Outcomes :
         LET args == <<Lit("exo-open"), Lit("--launch"), Lit("WebBrowser"),
                       <<OutputPath, "/output.gif">> >>
         IN  /\ procs' = Append(procs, Proc("exo-open", args, outcome))
             /\ IF ExecuteFails(outcome)
                THEN /\ Exit("Failed to execute process")
                     /\ UNCHANGED log
                ELSE /\ log' = Append(log, Event("view"))
                     /\ pc' = "done"
                     /\ exitCode' = 0
                     /\ UNCHANGED err
    /\ UNCHANGED <<timing, script, windowid, lineNo, parts, delay, size, frame,
                   buffer, cursor, convert, terminal, sleeps>>

Next ==
    \/ ParseLine
    \/ Pace
    \/ Emit
    \/ CaptureUnresolved
    \/ Capture
    \/ ReadChunk
    \/ Assemble
    \/ View

Spec == Init /\ [][Next]_vars

----------------------------------------------------------------------------
(* Vocabulary of the properties *)

N == Len(timing)

IsPrefix(s, t) == Len(s) <= Len(t) /\ SubSeq(t, 1, Len(s)) = s

RECURSIVE Sum(_)
Sum(s) == IF s = <<>> THEN 0 ELSE Head(s) + Sum(Tail(s))

Count(s, P(_)) == Len(SelectSeq(s, P))

\* The fields of a timing line as the timing format defines them.
Fields(l) == Split(l, " ")
DelayText(l) == Fields(l)[1]
SizeText(l) == Fields(l)[2]

\* A non-negative decimal: digits, optionally a "." and more digits.
IsDecimal(s) ==
    LET pieces == Split(s, ".")
    IN  /\ Len(pieces) \in {1, 2}
        /\ \A i \in 1..Len(pieces) : pieces[i] # <<>> /\ AllDigits(pieces[i])

IsNatural(s) == s # <<>> /\ AllDigits(s)

\* A line of exactly two fields, a non-negative decimal and a non-negative
\* integer.
WellFormedLine(l) ==
    /\ Len(Fields(l)) = 2
    /\ IsDecimal(DelayText(l))
    /\ IsNatural(SizeText(l))

WellFormedTiming == \A i \in 1..N : WellFormedLine(timing[i])

\* The byte count a line declares (its second field), when it has one.
HasSize(l) == Len(Fields(l)) >= 2 /\ IsNatural(SizeText(l))
ByteCount(l) == DigitsValue(SizeText(l))

\* The bytes declared by the first k timing lines together.
Declared(k) == Sum([i \in 1..k |-> ByteCount(timing[i])])

IsXwd(p) == p.tool = "xwd"
IsConvert(p) == p.tool = "convert"
IsViewer(p) == p.tool = "exo-open"

\* The screen captures made so far, and the calls of the encoder.
Captures == SelectSeq(procs, IsXwd)
Encodings == SelectSeq(procs, IsConvert)

\* The image a capture writes is the last argument of xwd.
CapturePath(c) == c.args[Len(c.args)]

IsImagePath(tok) == Len(tok) >= 2 /\ tok[2] = "/img-"
IsDelayFlag(tok) == tok = Lit("-delay")

ImagePaths(args) == SelectSeq(args, IsImagePath)
DelayFlags(args) == SelectSeq(args, IsDelayFlag)

ImageName(i) == <<"output", "/img-">> \o ToDecimal(i) \o <<".xwd">>

Completed == pc = "done"

----------------------------------------------------------------------------
(* C1 *)

\* C1: for a well-formed timing stream of N >= 1 records, whatever the byte
\* counts (0 included), and a typescript whose payload is as long as the
\* records declare, a run that completes has made exactly N-1 screen
\* captures and has handed the encoder exactly N-1 image paths.
C1_FramesAreRecordsMinusOne ==
    (/\ Completed
     /\ N >= 1
     /\ WellFormedTiming
     /\ Len(Payload) = Declared(N))
    => /\ Len(Captures) = N - 1
       /\ \A k \in 1..Len(Encodings) : Len(ImagePaths(Encodings[k].args)) = N - 1

----------------------------------------------------------------------------
(* C2 *)

Scenario ==
    /\ timing = <<Line_05_3, Line_10_4>>
    /\ Payload = <<97, 98, 99, 119, 120, 121, 122>>

\* The delay that governs the k-th image of an argument vector: the token
\* right before the image path.
RECURSIVE GoverningDelays(_)
GoverningDelays(args) ==
    IF Len(args) < 2 THEN <<>>
    ELSE LET n == Len(args)
             front == GoverningDelays(SubSeq(args, 1, n - 1))
         IN  IF IsImagePath(args[n]) THEN Append(front, args[n - 1]) ELSE front

\* C2 as stated: in the scenario (0.5, 3), (1.0, 4) over "abcwxyz" the run
\* ends with exactly one frame handed to the encoder, and that frame is
\* tagged with delay "0.5".
C2_ScenarioAsStated ==
    (Scenario /\ Completed)
    => \A k \in 1..Len(Encodings) :
         /\ Len(ImagePaths(Encodings[k].args)) = 1
         /\ GoverningDelays(Encodings[k].args) = << <<"0", ".", "5">> >>

ScenarioLog ==
    << [op |-> "sleep", rec |-> 1], [op |-> "read", rec |-> 1],
       [op |-> "sleep", rec |-> 2], [op |-> "emit", rec |-> 2],
       [op |-> "capture", rec |-> 2], [op |-> "read", rec |-> 2],
       [op |-> "encode", rec |-> 2], [op |-> "view", rec |-> 2] >>

ScenarioArgs ==
    << <<"convert">>, <<"-delay">>, <<"0", ".", "5">>,
       <<"-delay">>, <<"1", ".", "0">>, <<"output", "/img-", "2", ".xwd">>,
       <<"-layers">>, <<"Optimize">>, <<"output", "/output.gif">> >>

\* C2, amended: in the scenario the first iteration sleeps 0.5 s and buffers
\* "abc" without emitting or capturing; the second sleeps 1.0 s, emits
\* "abc", captures the first frame into img-2 and buffers "wxyz"; the
\* encoder is handed exactly one image path, and the delay right before it,
\* the one that governs it, is "1.0"; the "-delay 0.5" of the first record
\* precedes no image.
C2_Scenario ==
    Scenario
    => /\ IsPrefix(log, ScenarioLog)
       /\ IsPrefix(sleeps, << <<0, 500000000>>, <<1, 0>> >>)
       /\ IsPrefix(terminal, <<97, 98, 99>>)
       /\ (Len(log) >= 2 /\ Len(log) < 6 => buffer = <<97, 98, 99>>)
       /\ (Len(log) >= 6 => buffer = <<119, 120, 121, 122>>)
       /\ \A k \in 1..Len(Captures) :
            /\ CapturePath(Captures[k]) = <<"output", "/img-", "2", ".xwd">>
            /\ Captures[k].shown = 3
       /\ \A k \in 1..Len(Encodings) :
            /\ Encodings[k].args = ScenarioArgs
            /\ Len(ImagePaths(Encodings[k].args)) = 1
            /\ GoverningDelays(Encodings[k].args) = << <<"1", ".", "0">> >>
       /\ (Completed => log = ScenarioLog /\ Len(Captures) = 1 /\ Len(Encodings) = 1)

C2_Witness == Scenario /\ Completed /\ Len(Encodings) = 1

----------------------------------------------------------------------------
(* C3 *)

\* C3 as stated: in the encoder's arguments every delay entry is right
\* before an image path, and there are as many delay entries as image paths.
C3_DelayPerImageAsStated ==
    \A e \in 1..Len(Encodings) :
      LET args == Encodings[e].args
      IN  /\ Len(DelayFlags(args)) = Len(ImagePaths(args))
          /\ \A k \in 1..Len(args) :
               IsDelayFlag(args[k]) => k + 2 <= Len(args) /\ IsImagePath(args[k + 2])

\* Whether a capture was made while timing record i was being processed.
CapturedAt(i) ==
    \E k \in 1..Len(Captures) :
      Captures[k].rec = i /\ Captures[k].outcome # "spawn_failed"

\* The arguments the records 1..k contribute: "-delay", the record's delay
\* text and, when a capture was made while the record was processed, the
\* image of that capture.
RECURSIVE RecordArgs(_)
RecordArgs(k) ==
    IF k = 0 THEN <<>>
    ELSE RecordArgs(k - 1)
         \o <<Lit("-delay"), DelayText(timing[k])>>
         \o (IF CapturedAt(k) THEN <<ImageName(k)>> ELSE <<>>)

\* C3, amended: the encoder's arguments are the program name, then for each
\* timing record in order "-delay" and the record's delay text, followed,
\* when a capture was made while that record was processed, by the image of
\* that capture, then -layers Optimize and the output path.  Every image
\* path comes right after a delay entry; there is one delay entry per
\* record, so with N >= 1 records there is at least one more delay entry
\* than there are image paths.
C3_EncoderArguments ==
    \A e \in 1..Len(Encodings) :
      LET args == Encodings[e].args
      IN  /\ args = <<Lit("convert")>> \o RecordArgs(N)
                    \o <<Lit("-layers"), Lit("Optimize"), <<"output", "/output.gif">> >>
          /\ \A k \in 1..Len(args) :
               IsImagePath(args[k]) => k >= 3 /\ IsDelayFlag(args[k - 2])
          /\ Len(DelayFlags(args)) = N
          /\ (N >= 1 => Len(ImagePaths(args)) <= N - 1)

C3_Witness ==
    /\ Len(Encodings) = 1
    /\ Len(ImagePaths(Encodings[1].args)) = 2
    /\ Len(DelayFlags(Encodings[1].args)) = 3

----------------------------------------------------------------------------
(* C4 *)

\* C4: the image captured while timing record i is processed (i >= 2) sits
\* in the encoder's arguments right after "-delay" and the delay text of
\* record i itself, unchanged.
C4_FrameDelayIsCurrentRecord ==
    \A c \in 1..Len(Captures) :
      Captures[c].outcome # "spawn_failed"
      => /\ Captures[c].rec >= 2
         /\ \E k \in 3..Len(convert) :
              /\ convert[k] = CapturePath(Captures[c])
              /\ convert[k - 1] = DelayText(timing[Captures[c].rec])
              /\ convert[k - 2] = Lit("-delay")
         /\ \A k \in 1..Len(convert) :
              convert[k] = CapturePath(Captures[c])
              => k >= 3 /\ convert[k - 1] = DelayText(timing[Captures[c].rec])

\* A frame captured while the third record is processed, whose delay text
\* differs from the second record's, has reached the encoder.
C4_Witness ==
    /\ Len(Encodings) = 1
    /\ Len(Captures) >= 1
    /\ Captures[Len(Captures)].rec = 3
    /\ DelayText(timing[3]) # DelayText(timing[2])

----------------------------------------------------------------------------
(* C5 *)

\* C5 as stated: the frame index advances only when a capture is made, so
\* the k-th capture is written to img-k and the first capture to img-1.
C5_KthCaptureIsImgK ==
    \A k \in 1..Len(Captures) : CapturePath(Captures[k]) = ImageName(k)

\* C5, amended: the frame index starts at 1 and advances once per timing
\* record processed, the first one included, so the capture made while
\* record i is processed is written to <output-dir>/img-i.<ext>; no capture
\* is made for record 1, so the first capture is img-2 or later.
C5_CaptureOfRecordIIsImgI ==
    /\ (pc \in {"pace", "emit", "capture", "read"} => frame = lineNo)
    /\ (pc \in {"line", "view", "done"} => frame = lineNo + 1)
    /\ \A k \in 1..Len(Captures) :
         /\ Captures[k].rec >= 2
         /\ CapturePath(Captures[k]) = ImageName(Captures[k].rec)

C5_Witness ==
    /\ Len(Captures) = 2
    /\ CapturePath(Captures[1]) = ImageName(2)
    /\ CapturePath(Captures[2]) = ImageName(3)

----------------------------------------------------------------------------
(* C6 *)

TruncatedScript == "Could not read from script file"

\* Record k is the first whose chunk the typescript cannot fill.
FirstUnderFilled(k) ==
    /\ k \in 1..N
    /\ \A j \in 1..k : HasSize(timing[j])
    /\ Declared(k - 1) <= Len(Payload)
    /\ Declared(k) > Len(Payload)

HasEvent(op, i) == \E e \in 1..Len(log) : log[e] = [op |-> op, rec |-> i]

C6_State ==
    /\ \A k \in 1..N :
         FirstUnderFilled(k)
         => /\ lineNo <= k
            /\ ~HasEvent("read", k)
            /\ Len(terminal) <= Declared(k - 1)
            /\ \A c \in 1..Len(Captures) : Captures[c].rec <= k
            /\ Len(Encodings) = 0
    /\ (err = TruncatedScript => pc = "failed" /\ FirstUnderFilled(lineNo))

C6_Step ==
    (pc = "read" /\ FirstUnderFilled(lineNo))
    => /\ pc' = "failed"
       /\ err' = TruncatedScript
       /\ exitCode' = 1
       /\ UNCHANGED <<terminal, procs, convert, log>>

\* C6: when the typescript's payload is shorter than the timing records
\* declare, the read of the first under-filled chunk ends the run with the
\* error of a truncated script; that chunk is never buffered or emitted, no
\* capture is attempted for it, and the encoder is never invoked.
C6_TruncatedScriptIsFatal == []C6_State /\ [][C6_Step]_vars

\* The second chunk is under-filled: the run ended at its read, after the
\* first chunk had been emitted and captured.
C6_Witness ==
    /\ pc = "failed"
    /\ err = TruncatedScript
    /\ lineNo = 2
    /\ Len(terminal) > 0
    /\ Len(Captures) = 1

----------------------------------------------------------------------------
(* C7 *)

\* The ways the program ends on a line it does not accept: the three parse
\* errors it reports, and the panic on a line without a second token.
MalformedTimingLine ==
    { "Error reading delay in timing file",
      "Error reading size in timing file",
      "Error parsing delay in timing file",
      "index out of bounds" }

\* C7: a timing line that is not exactly two space-separated tokens, a
\* non-negative decimal and a non-negative integer, makes the run fail with
\* the error of a malformed timing line; no sleep, emission, capture or read
\* is performed for that line, and the encoder is never invoked.
C7_MalformedLineIsFatal ==
    \A i \in 1..lineNo :
      ~WellFormedLine(timing[i])
      => /\ pc = "failed"
         /\ err \in MalformedTimingLine
         /\ \A e \in 1..Len(log) : log[e].rec # i
         /\ \A k \in 1..Len(procs) : procs[k].rec # i
         /\ Len(Encodings) = 0

----------------------------------------------------------------------------
(* C8 *)

Consumed == cursor - ReadLine(script)

\* C8 as stated: a run that reaches the encoder or completes has consumed
\* the typescript's payload to its last byte.
C8_PayloadFullyConsumed ==
    (N >= 1 /\ (Len(Encodings) >= 1 \/ Completed)) => Consumed = Len(Payload)

\* C8, amended: the typescript's payload must be at least as long as the sum
\* of byte_count over all timing records; bytes left unread after the last
\* record are ignored.  Between iterations, and in every run that reaches
\* the encoder, bytes consumed = sum of the byte counts of the records
\* processed <= payload length.
C8_ConsumedIsDeclared ==
    /\ (pc \in {"line", "view", "done"}
        => Consumed = Declared(lineNo) /\ Consumed <= Len(Payload))
    /\ (Len(Encodings) >= 1
        => Consumed = Declared(N) /\ Consumed <= Len(Payload))

\* A run over two records completed with a byte of the payload left unread.
C8_Witness ==
    /\ Completed
    /\ N >= 2
    /\ Consumed = Declared(N)
    /\ Consumed < Len(Payload)

----------------------------------------------------------------------------
(* C9 *)

\* C9: when the capture tool or the encoder cannot be started, or runs and
\* exits unsuccessfully, the run ends there with a non-zero exit status:
\* no later process is started and nothing more is done.
C9_ToolFailureIsFatal ==
    \A k \in 1..Len(procs) :
      (procs[k].tool \in {"xwd", "convert"} /\ procs[k].outcome # "status_zero")
      => /\ k = Len(procs)
         /\ pc = "failed"
         /\ exitCode > 0

----------------------------------------------------------------------------
(* C10 *)

C10_State ==
    /\ Len(Encodings) <= 1
    /\ (err # "") = (pc = "failed")
    /\ (pc = "failed" => exitCode > 0)
    /\ \A e \in 1..Len(Encodings) :
         /\ Encodings[e].rec = N
         /\ lineNo = N
         /\ \A i \in 1..N : HasEvent("sleep", i) /\ HasEvent("read", i)
         /\ (err # "" => err = "Failed to execute process")

C10_Step ==
    /\ pc # "failed"
    /\ (Len(Encodings') > Len(Encodings) => err = "" /\ Len(Encodings) = 0)

\* C10: every error ends the run.  The encoder is invoked at most once, only
\* after the last timing record has been processed, and never after an
\* error; once an error has occurred nothing more happens: no sleep, no
\* emission, no capture, no read, no process.
C10_ErrorsAreTerminal == []C10_State /\ [][C10_Step]_vars

\* A run that failed on an undecodable chunk after a capture had been made:
\* the image stays, the encoder was not invoked.
C10_Witness ==
    /\ pc = "failed"
    /\ err = "Error converting script output to a string"
    /\ Len(Captures) >= 1
    /\ Len(Encodings) = 0

----------------------------------------------------------------------------
(* C11 *)

\* C11: a timing record with byte_count 0 is treated like any other: its
\* empty chunk is buffered, and the iteration that follows emits the (empty)
\* chunk and captures and appends a frame for it.
C11_ZeroByteRecordGetsFrame ==
    \A i \in 2..N :
      (/\ WellFormedLine(timing[i - 1])
       /\ ByteCount(timing[i - 1]) = 0
       /\ HasEvent("read", i - 1)
       /\ HasEvent("read", i))
      => /\ HasEvent("emit", i)
         /\ HasEvent("capture", i)
         /\ \E k \in 1..Len(convert) : convert[k] = ImageName(i)

----------------------------------------------------------------------------
(* C12 *)

UndecodableOutput == "Error converting script output to a string"

C12_State ==
    /\ ValidUtf8(terminal)
    /\ (err = UndecodableOutput
        => /\ pc = "failed"
           /\ lineNo >= 2
           /\ ~ValidUtf8(buffer)
           /\ ~HasEvent("emit", lineNo)
           /\ ~HasEvent("capture", lineNo)
           /\ Len(terminal) = Declared(lineNo - 2)
           /\ \A c \in 1..Len(Captures) : Captures[c].rec < lineNo
           /\ Len(Encodings) = 0)

C12_Step ==
    (pc = "emit" /\ ~ValidUtf8(buffer))
    => /\ pc' = "failed"
       /\ err' = UndecodableOutput
       /\ UNCHANGED <<terminal, procs, convert, log>>

\* C12: a buffered chunk is checked to be well-formed UTF-8 before any of it
\* is written: when a chunk that is not reaches its emission, the run ends
\* with the error of an undecodable output, no byte of the chunk is written
\* to the terminal, no capture is made for it and the encoder is never
\* invoked.
C12_UndecodableChunkIsFatal == []C12_State /\ [][C12_Step]_vars

\* The second chunk ends in the middle of a two-byte character: the run
\* ended at its emission, with only the first chunk on the terminal.
C12_Witness ==
    /\ pc = "failed"
    /\ err = UndecodableOutput
    /\ lineNo = 3
    /\ buffer = <<119, 120, 195>>
    /\ terminal = <<97, 98, 99>>

----------------------------------------------------------------------------
(* C13 *)

CaptureTargetUnresolved == "Could not determine window ID"

HasEmitted == \E e \in 1..Len(log) : log[e].op = "emit"

\* C13 as stated: when WINDOWID cannot be resolved, the capture tool is
\* never invoked, the run ends in a fatal error and the encoder is never
\* invoked.
C13_UnresolvedNeverEncodes ==
    (~windowid.set /\ N >= 1)
    => /\ Len(Captures) = 0
       /\ Len(Encodings) = 0
       /\ pc \notin {"view", "done"}

C13_State ==
    /\ (err = CaptureTargetUnresolved => ~windowid.set)
    /\ (~windowid.set
        => /\ Len(Captures) = 0
           /\ (HasEmitted
               => /\ pc \in {"capture", "failed"}
                  /\ HasEvent("emit", lineNo)
                  /\ Len(Encodings) = 0
                  /\ (pc = "failed" => err = CaptureTargetUnresolved)))

C13_Step ==
    (pc = "capture" /\ ~windowid.set)
    => /\ pc' = "failed"
       /\ err' = CaptureTargetUnresolved
       /\ UNCHANGED <<terminal, procs, convert, log>>

\* C13, amended: when WINDOWID cannot be resolved, the capture tool is never
\* invoked.  The handle is looked up at each capture attempt, after the
\* buffered chunk has been emitted: the first attempt ends the run with the
\* error of an unresolved capture target, before any capture, and the
\* encoder is then never invoked.  A run that attempts no capture (no
\* chunk was ever emitted) never looks the handle up and may complete and
\* invoke the encoder.
C13_UnresolvedTargetIsFatal == []C13_State /\ [][C13_Step]_vars

\* The first capture attempt, in the second iteration, ended the run.
C13_Witness ==
    /\ pc = "failed"
    /\ err = CaptureTargetUnresolved
    /\ lineNo = 2
    /\ Len(terminal) > 0
    /\ Len(procs) = 0

----------------------------------------------------------------------------
(* C14 *)

\* The position in the log of the step `op` of iteration i, 0 when it has
\* not been taken.
Pos(op, i) ==
    IF HasEvent(op, i)
    THEN CHOOSE e \in 1..Len(log) : log[e] = [op |-> op, rec |-> i]
    ELSE 0

Before(op1, i, op2, j) == HasEvent(op1, i) /\ Pos(op1, i) < Pos(op2, j)

\* C14 as stated: the sleep is the last step of an iteration: the sleep for
\* record i comes after the read of record i's chunk and after the emission
\* and capture made in that iteration.
C14_SleepIsLast ==
    \A i \in 1..N :
      HasEvent("sleep", i)
      => /\ Before("read", i, "sleep", i)
         /\ (HasEvent("emit", i) => Before("emit", i, "sleep", i))
         /\ (HasEvent("capture", i) => Before("capture", i, "sleep", i))

\* C14, amended: within every iteration the steps occur in the order:
\* first the sleep for the current record's delay; then, when the buffer is
\* not empty, the emission of the previous chunk, the capture and the push
\* of the image path; then, last, the read that buffers the current
\* record's chunk.  The sleep for record i comes after the read of record
\* i-1 and before everything else done for record i.
C14_SleepIsFirst ==
    /\ \A e \in 1..Len(log) :
         IF log[e].op \in {"sleep", "emit", "capture", "read"}
         THEN log[e].rec \in 1..lineNo
         ELSE log[e].rec = N /\ \A i \in 1..N : Before("read", i, log[e].op, N)
    /\ \A i \in 1..N :
         /\ (HasEvent("sleep", i) /\ i >= 2 => Before("read", i - 1, "sleep", i))
         /\ (HasEvent("emit", i) => Before("sleep", i, "emit", i))
         /\ (HasEvent("capture", i) => Before("emit", i, "capture", i))
         /\ (HasEvent("read", i)
             => /\ Before("sleep", i, "read", i)
                /\ (HasEvent("emit", i) => Before("capture", i, "read", i)))
         /\ \A op \in {"sleep", "emit", "capture", "read"} :
              Len(SelectSeq(log, LAMBDA x : x = [op |-> op, rec |-> i])) <= 1

\* A second iteration that slept, emitted, captured and read, in that order.
C14_Witness ==
    /\ Before("read", 1, "sleep", 2)
    /\ Before("sleep", 2, "emit", 2)
    /\ Before("emit", 2, "capture", 2)
    /\ Before("capture", 2, "read", 2)

----------------------------------------------------------------------------
(* C15 *)

EndsWith(t, b) == Len(b) <= Len(t) /\ SubSeq(t, Len(t) - Len(b) + 1, Len(t)) = b

InArgs(args, tok) == \E k \in 1..Len(args) : args[k] = tok

\* C15: in every iteration that captures, the buffered chunk has been
\* written completely before the capture is triggered; the image path is
\* appended only once the capture process has run to its end; and both
\* happen before the current record's chunk replaces the buffer.  Each step
\* is taken alone, in sequence.
C15_EmitThenCaptureThenRead ==
    /\ (pc = "capture"
        => /\ buffer # <<>>
           /\ EndsWith(terminal, buffer)
           /\ HasEvent("emit", lineNo)
           /\ ~HasEvent("read", lineNo))
    /\ \A c \in 1..Len(Captures) :
         LET cap == Captures[c]
         IN  /\ HasEvent("emit", cap.rec)
             /\ (InArgs(convert, CapturePath(cap)) <=> cap.outcome # "spawn_failed")
             /\ (HasEvent("capture", cap.rec) <=> cap.outcome # "spawn_failed")
             /\ (HasEvent("read", cap.rec) => Before("capture", cap.rec, "read", cap.rec))
             /\ (cap.rec = lineNo /\ pc = "read"
                 => /\ EndsWith(terminal, buffer)
                    /\ cap.shown = Len(terminal)
                    /\ convert[Len(convert)] = CapturePath(cap))

\* The third iteration has emitted and captured and is about to read.
C15_Witness ==
    /\ pc = "read"
    /\ lineNo = 3
    /\ HasEvent("capture", 3)
    /\ Len(Captures) = 2

----------------------------------------------------------------------------
(* C16 *)

IsSleep(x) == x.op = "sleep"
SleepEvents == SelectSeq(log, IsSleep)

RECURSIVE Pow10(_)
Pow10(k) == IF k = 0 THEN 1 ELSE 10 * Pow10(k - 1)

\* The delay a timing line states, as whole seconds and nanoseconds, read
\* off its decimal text: the digits before the "." and the first nine after.
StatedDelay(l) ==
    LET pieces == Split(DelayText(l), ".")
        fract  == IF Len(pieces) > 1 THEN pieces[2] ELSE <<>>
    IN  << DigitsValue(pieces[1]),
           Sum([k \in 1..Len(fract) |->
                  IF k <= 9 THEN DigitVal(fract[k]) * Pow10(9 - k) ELSE 0]) >>

\* C16: pacing is applied exactly once per timing record, in record order,
\* with the record's own delay, in the first iteration as in the others: a
\* run that completes over N records has slept N times, the i-th time for
\* record i's delay, and the first record's delay has elapsed before any
\* byte of the payload is written.
C16_OneSleepPerRecord ==
    /\ Len(sleeps) = Len(SleepEvents)
    /\ \A i \in 1..Len(sleeps) :
         /\ SleepEvents[i].rec = i
         /\ sleeps[i] = StatedDelay(timing[i])
    /\ Len(sleeps) <= lineNo
    /\ (pc \in {"emit", "capture", "read"} => Len(sleeps) = lineNo)
    /\ (pc \in {"line", "view", "done"} => Len(sleeps) = lineNo)
    /\ (Len(Encodings) >= 1 \/ Completed => Len(sleeps) = N)
    /\ (Len(terminal) > 0 \/ HasEmitted
        => \A e \in 1..Len(log) : log[e].op = "emit" => Before("sleep", 1, "emit", log[e].rec))

\* A completed run over three records with three different delays.
C16_Witness ==
    /\ Completed
    /\ N = 3
    /\ sleeps = << <<0, 500000000>>, <<1, 0>>, <<2, 500000000>> >>
    /\ Len(terminal) > 0

----------------------------------------------------------------------------
(* C17 *)

\* The typescript without its header line.
Body == SubSeq(script, Len(Header) + 1, Len(script))

\* The bytes of the payload that timing record i declares as its chunk.
Chunk(i) == SubSeq(Body, Declared(i - 1) + 1, Declared(i))

\* C17: chunk boundaries follow the timing records exactly.  The header line
\* is discarded and never emitted; the read for record i consumes exactly
\* byte_count(i) bytes, so after iteration i the buffer holds exactly the
\* payload bytes at offsets [Declared(i-1), Declared(i)) and nothing of the
\* previous chunk, and after k iterations the stream cursor is at the sum of
\* the first k byte counts.
C17_ChunkBoundaries ==
    /\ IsPrefix(terminal, Body)
    /\ (pc \in {"line", "view", "done"}
        => /\ cursor = Len(Header) + Declared(lineNo)
           /\ (lineNo >= 1 => buffer = Chunk(lineNo))
           /\ (lineNo >= 1 => Len(buffer) = ByteCount(timing[lineNo])))
    /\ (pc \in {"pace", "emit", "capture", "read"}
        => /\ cursor = Len(Header) + Declared(lineNo - 1)
           /\ (lineNo >= 2 => buffer = Chunk(lineNo - 1)))
    /\ \A i \in 1..N :
         HasEvent("emit", i) => Len(terminal) >= Declared(i - 1)

\* Two iterations done: the buffer holds the second chunk alone.
C17_Witness ==
    /\ pc = "line"
    /\ lineNo = 2
    /\ buffer = <<119, 120, 121, 122>>
    /\ terminal = <<97, 98, 99>>
    /\ cursor = 9

----------------------------------------------------------------------------
(* C18 *)

\* The frame index an image path carries between "img-" and its extension.
IndexDigits(path) == SubSeq(path, 3, Len(path) - 1)
PathIndex(path) == DigitsValue(IndexDigits(path))

Ran(p) == p.outcome # "spawn_failed"

\* The image paths of the captures that ran, in the order they were taken.
CapturedPaths ==
    LET ran == SelectSeq(Captures, Ran)
    IN  [k \in 1..Len(ran) |-> CapturePath(ran[k])]

\* C18: path order is display order.  The frame indices that name the
\* captures are strictly increasing in capture order, so no two captures
\* write the same image path, and the image paths in the encoder's arguments
\* are in the order in which the captures were taken.
C18_PathOrderIsCaptureOrder ==
    /\ \A k \in 1..Len(Captures) :
         /\ IsImagePath(CapturePath(Captures[k]))
         /\ IndexDigits(CapturePath(Captures[k])) # <<>>
         /\ AllDigits(IndexDigits(CapturePath(Captures[k])))
    /\ \A j, k \in 1..Len(Captures) :
         j < k => /\ PathIndex(CapturePath(Captures[j])) < PathIndex(CapturePath(Captures[k]))
                  /\ CapturePath(Captures[j]) # CapturePath(Captures[k])
    /\ ImagePaths(convert) = CapturedPaths
    /\ \A e \in 1..Len(Encodings) : ImagePaths(Encodings[e].args) = CapturedPaths

\* Two captures were taken and handed to the encoder in that order.
C18_Witness ==
    /\ Len(Encodings) = 1
    /\ Len(CapturedPaths) = 2
    /\ PathIndex(CapturedPaths[1]) = 2
    /\ PathIndex(CapturedPaths[2]) = 3
    /\ ImagePaths(Encodings[1].args) = CapturedPaths

----------------------------------------------------------------------------
(* C19 *)

\* C19: emission lags reading by one record.  When the capture of iteration
\* i is made the terminal has received exactly the chunks of records 1..i-1
\* and no byte of record i or later; so in a run that completes over N >= 1
\* records the chunk of the last record has been read and buffered but was
\* never written to the terminal and is in no captured frame.
C19_EmissionLagsByOneRecord ==
    /\ Len(terminal) <= Len(Body)
    /\ terminal = SubSeq(Body, 1, Len(terminal))
    /\ (lineNo >= 1 => Len(terminal) <= Declared(lineNo - 1))
    /\ \A c \in 1..Len(Captures) :
         /\ Captures[c].shown = Declared(Captures[c].rec - 1)
         /\ Captures[c].shown <= Len(terminal)
    /\ (Completed /\ N >= 1
        => /\ terminal = SubSeq(Body, 1, Declared(N - 1))
           /\ buffer = SubSeq(Body, Declared(N - 1) + 1, Declared(N))
           /\ \A c \in 1..Len(Captures) : Captures[c].shown <= Declared(N - 1))

\* A completed run whose last chunk, "wxyz", is buffered and was never shown.
C19_Witness ==
    /\ Completed
    /\ N = 2
    /\ buffer = <<119, 120, 121, 122>>
    /\ terminal = <<97, 98, 99>>
    /\ Len(Captures) = 1
    /\ Captures[1].shown = 3

----------------------------------------------------------------------------
(* C20 *)

\* The records among the first k that declare at least one byte.
NonEmptyRecords(k) == {i \in 1..k : ByteCount(timing[i]) > 0}

====
